---- MODULE Spec2Model ----
(***************************************************************************)
(* State-machine model of infinigen_examples/asset_dev.py: the parameter   *)
(* sampler (MyAsset), the sweep enumerator (iter_overrides), the scene     *)
(* composition (compose_scene) and the two render drivers                  *)
(* (create_param_demo, create_video).                                      *)
(*                                                                         *)
(* Numeric parameter values are kept in hundredths (1.5 is 150), a Python  *)
(* dict is a sequence of <<key, value>> pairs in insertion order, and an   *)
(* optional value is None (the empty sequence) or Some(x).                 *)
(***************************************************************************)
EXTENDS Integers, Sequences, FiniteSets, TLC

VARIABLES mode, save_blend, seed, duration_frames,
          rng, pc, crashed, err,
          ranges, gen, yielded, i, overrides,
          factory, scene, frame_start, frame_end,
          disk, blends, img, log,
          in_seed, in_overrides, applied, prev

vars == <<mode, save_blend, seed, duration_frames, rng, pc, crashed, err,
          ranges, gen, yielded, i, overrides, factory, scene, frame_start,
          frame_end, disk, blends, img, log, in_seed, in_overrides, applied,
          prev>>

----------------------------------------------------------------------------
(* Bounds of the model *)

MaxSeed == 1
RngMod == 8
MaxDuration == 1
MaxLen == 2
MaxVal == 2
MaxApply == 2

(* Program constants *)

RandIntHigh == 10000000
NumCandidates == 3
PadWidth == 4

None == <<>>
Some(x) == <<x>>

ParamNames == <<"major_radius", "minor_radius", "noise_scale", "noise_distortion">>

----------------------------------------------------------------------------
(* Python dicts as insertion-ordered sequences of <<key, value>> pairs *)

Keys(d) == {d[n][1] : n \in DOMAIN d}

Get(d, k) == d[CHOOSE n \in DOMAIN d : d[n][1] = k][2]

DictSet(d, k, v) ==
    IF k \in Keys(d)
    THEN [n \in DOMAIN d |-> IF d[n][1] = k THEN <<k, v>> ELSE d[n]]
    ELSE Append(d, <<k, v>>)

RECURSIVE DictUpdateDropUnknown(_, _)
DictUpdateDropUnknown(d, o) ==
    IF o = <<>> THEN d
    ELSE DictUpdateDropUnknown(
             IF Head(o)[1] \in Keys(d) THEN DictSet(d, Head(o)[1], Head(o)[2]) ELSE d,
             Tail(o))

RECURSIVE DictUpdateAdd(_, _)
DictUpdateAdd(d, o) ==
    IF o = <<>> THEN d
    ELSE DictUpdateAdd(
             DictSet(d, Head(o)[1],
                     IF Head(o)[1] \in Keys(d) THEN Get(d, Head(o)[1]) + Head(o)[2]
                     ELSE Head(o)[2]),
             Tail(o))

RECURSIVE DictUpdate(_, _)
DictUpdate(d, o) ==
    IF o = <<>> THEN d
    ELSE DictUpdate(DictSet(d, Head(o)[1], Head(o)[2]), Tail(o))

----------------------------------------------------------------------------
(* numpy's process-wide random source, as a small congruential generator *)

SeedRng(s) == (3 * s + 1) % RngMod

RngStep(r) == (5 * r + 3) % RngMod

RandInt(r, lo, hi) == lo + (r % (hi - lo))

Uniform(r, lo, hi) == lo + (((hi - lo) * r) \div RngMod)

(* FixedSeed: seed the random source on entry, restore the saved state on exit *)

FixedSeedEnter(r, s) == SeedRng(s)

FixedSeedExit(saved, r) == saved

----------------------------------------------------------------------------
(* MyAsset *)

sample_params(r) ==
    LET r1 == RngStep(r)
        r2 == RngStep(r1)
        r3 == RngStep(r2)
    IN  [params |-> << <<"major_radius", Uniform(r, 100, 200)>>,
                       <<"minor_radius", Uniform(r1, 10, 100)>>,
                       <<"noise_scale", Uniform(r2, 100, 2000)>>,
                       <<"noise_distortion", Uniform(r3, 0, 500)>> >>,
         rng |-> RngStep(r3)]

MyAssetInit(r, factory_seed, ov) ==
    LET inner == FixedSeedEnter(r, factory_seed)
        s == sample_params(inner)
    IN  [factory |-> [factory_seed |-> factory_seed,
                      sampled |-> s.params,
                      params |-> IF ov # None THEN DictUpdate(s.params, ov[1])
                                 ELSE s.params],
         rng |-> FixedSeedExit(r, s.rng)]

create_asset(f) ==
    [major_radius |-> Get(f.params, "major_radius"),
     minor_radius |-> Get(f.params, "minor_radius"),
     material |-> f.params]

spawn_asset(f, idx) == [mesh |-> create_asset(f), factory_seed |-> f.factory_seed, i |-> idx]

----------------------------------------------------------------------------
(* compose_scene *)

EmptyScene == [lighting |-> FALSE, camera |-> None, assets |-> <<>>]

clear_scene == EmptyScene

compose_sceneIgnoreOverrides(r, sc, ov) ==
    LET fs == RandInt(r, 0, RandIntHigh)
        r1 == RngStep(r)
        made == MyAssetInit(r1, fs, None)
        idx == RandInt(made.rng, 0, RandIntHigh)
    IN  [factory |-> made.factory,
         scene |-> [lighting |-> TRUE,
                    camera |-> Some(<<700, 700, 350, 70, 0, 135>>),
                    assets |-> Append(sc.assets, spawn_asset(made.factory, idx))],
         rng |-> RngStep(made.rng)]

compose_scene(r, sc, ov) ==
    LET fs == RandInt(r, 0, RandIntHigh)
        r1 == RngStep(r)
        made == MyAssetInit(r1, fs, None)
        f == IF ov # None
             THEN [made.factory EXCEPT !.params = DictUpdate(@, ov[1])]
             ELSE made.factory
        idx == RandInt(made.rng, 0, RandIntHigh)
    IN  [factory |-> f,
         scene |-> [lighting |-> TRUE,
                    camera |-> Some(<<700, 700, 350, 70, 0, 135>>),
                    assets |-> Append(sc.assets, spawn_asset(f, idx))],
         rng |-> RngStep(made.rng)]

(* with FixedSeed(seed): compose_scene(...) *)

SeededComposeNoSeed(r, sd, sc, ov) == compose_scene(r, sc, ov)

SeededCompose(r, sd, sc, ov) ==
    LET c == compose_scene(FixedSeedEnter(r, sd), sc, ov)
    IN  [c EXCEPT !.rng = FixedSeedExit(r, c.rng)]

----------------------------------------------------------------------------
(* iter_overrides: a RangeSpec is a sequence of <<name, candidates>> pairs *)

MidIndexLow(v) == ((Len(v) - 1) \div 2) + 1

MidIndex(v) == (Len(v) \div 2) + 1

MidVals(rs) == [n \in DOMAIN rs |-> <<rs[n][1], rs[n][2][MidIndex(rs[n][2])]>>]

NewGen == [started |-> FALSE, done |-> FALSE, mid |-> <<>>, k |-> 1, j |-> 1]

RECURSIVE GenSeekSkipMid(_, _, _, _)
GenSeekSkipMid(rs, mid, k, j) ==
    IF k > Len(rs)
    THEN [result |-> "stop", value |-> <<>>,
          gen |-> [started |-> TRUE, done |-> TRUE, mid |-> mid, k |-> k, j |-> j]]
    ELSE IF j > Len(rs[k][2])
    THEN GenSeekSkipMid(rs, mid, k + 1, 1)
    ELSE IF j = MidIndex(rs[k][2]) /\ k > 1
    THEN GenSeekSkipMid(rs, mid, k, j + 1)
    ELSE [result |-> "yield", value |-> DictSet(mid, rs[k][1], rs[k][2][j]),
          gen |-> [started |-> TRUE, done |-> FALSE, mid |-> mid, k |-> k, j |-> j + 1]]

RECURSIVE GenSeekReversed(_, _, _, _)
GenSeekReversed(rs, mid, k, j) ==
    IF k > Len(rs)
    THEN [result |-> "stop", value |-> <<>>,
          gen |-> [started |-> TRUE, done |-> TRUE, mid |-> mid, k |-> k, j |-> j]]
    ELSE IF j > Len(rs[k][2])
    THEN GenSeekReversed(rs, mid, k + 1, 1)
    ELSE [result |-> "yield",
          value |-> DictSet(mid, rs[k][1], rs[k][2][Len(rs[k][2]) - j + 1]),
          gen |-> [started |-> TRUE, done |-> FALSE, mid |-> mid, k |-> k, j |-> j + 1]]

RECURSIVE GenSeek(_, _, _, _)
GenSeek(rs, mid, k, j) ==
    IF k > Len(rs)
    THEN [result |-> "stop", value |-> <<>>,
          gen |-> [started |-> TRUE, done |-> TRUE, mid |-> mid, k |-> k, j |-> j]]
    ELSE IF j > Len(rs[k][2])
    THEN GenSeek(rs, mid, k + 1, 1)
    ELSE [result |-> "yield", value |-> DictSet(mid, rs[k][1], rs[k][2][j]),
          gen |-> [started |-> TRUE, done |-> FALSE, mid |-> mid, k |-> k, j |-> j + 1]]

NonEmptyOnly(rs) == SelectSeq(rs, LAMBDA e : Len(e[2]) > 0)

iter_overridesSkipEmpty(rs, g) ==
    IF g.done
    THEN [result |-> "stop", value |-> <<>>, gen |-> g]
    ELSE IF ~g.started
    THEN GenSeek(rs, MidVals(NonEmptyOnly(rs)), 1, 1)
    ELSE GenSeek(rs, g.mid, g.k, g.j)

(* one next() on the generator object *)
iter_overrides(rs, g) ==
    IF g.done
    THEN [result |-> "stop", value |-> <<>>, gen |-> g]
    ELSE IF ~g.started
    THEN IF \E n \in DOMAIN rs : Len(rs[n][2]) = 0
         THEN [result |-> "raise", value |-> <<>>,
               gen |-> [g EXCEPT !.started = TRUE, !.done = TRUE]]
         ELSE GenSeek(rs, MidVals(rs), 1, 1)
    ELSE GenSeek(rs, g.mid, g.k, g.j)

----------------------------------------------------------------------------
(* create_param_demo helpers *)

linspace(lo, hi, num) == [n \in 1..num |-> lo + (((hi - lo) * (n - 1)) \div (num - 1))]

override_ranges ==
    << <<"major_radius", linspace(100, 200, NumCandidates)>>,
       <<"minor_radius", linspace(10, 100, NumCandidates)>>,
       <<"noise_scale", linspace(100, 2000, NumCandidates)>>,
       <<"noise_distortion", linspace(0, 500, NumCandidates)>> >>

RECURSIVE Digits(_)
Digits(n) == IF n < 10 THEN <<n>> ELSE Append(Digits(n \div 10), n % 10)

RECURSIVE ZeroPad(_, _)
ZeroPad(ds, w) == IF Len(ds) >= w THEN ds ELSE ZeroPad(<<0>> \o ds, w)

(* f'{i:04d}' and the renderer's frame numbering *)
ImageName(n) == ZeroPad(Digits(n), PadWidth)

(* f'{v:.2f}' of a value held in hundredths: <<integer part, two decimals>> *)
Fmt2(v) == <<Digits(v \div 100), ZeroPad(Digits(v % 100), 2)>>

OverlayText(ov) == [n \in DOMAIN ov |-> <<ov[n][1], Fmt2(ov[n][2])>>]

RECURSIVE RenderFrames(_, _, _, _)
RenderFrames(dsk, sc, fs, fe) ==
    IF fs > fe THEN dsk
    ELSE RenderFrames((ImageName(fs) :> [frame |-> fs, assets |-> sc.assets, text |-> <<>>])
                          @@ dsk, sc, fs + 1, fe)

(* ImageDraw.Draw(img).text: the two sides of the unresolved merge at lines
   153-158 of the source differ in the font only, which the model leaves out *)
DrawTextNothing(im, ov) == im

DrawText(im, ov) == [im EXCEPT !.text = OverlayText(ov)]

Entry(op, a, b, name) == [op |-> op, a |-> a, b |-> b, name |-> name]

----------------------------------------------------------------------------
(* Initial states *)

Modes == {"param_demo", "video", "none"}

Blank ==
    /\ crashed = FALSE
    /\ err = "none"
    /\ gen = NewGen
    /\ yielded = <<>>
    /\ i = 0
    /\ overrides = None
    /\ factory = None
    /\ scene = EmptyScene
    /\ frame_start = 1
    /\ frame_end = 250
    /\ disk = <<>>
    /\ blends = {}
    /\ img = None
    /\ log = <<>>
    /\ applied = 0
    /\ prev = None

(* __main__ after argument parsing and apply_scene_seed *)
Init ==
    /\ mode \in Modes
    /\ save_blend \in BOOLEAN
    /\ seed \in 0..MaxSeed
    /\ duration_frames \in 0..MaxDuration
    /\ rng \in 0..(RngMod - 1)
    /\ pc = "main"
    /\ ranges = <<>>
    /\ in_seed = 0
    /\ in_overrides = None
    /\ Blank

----------------------------------------------------------------------------
(* __main__ dispatch *)

Running == ~crashed /\ err = "none"

Main ==
    /\ Running /\ pc = "main"
    /\ IF mode = "param_demo"
       THEN pc' = "pd_next" /\ ranges' = override_ranges /\ err' = err
       ELSE IF mode = "video"
       THEN pc' = "v_clear" /\ ranges' = ranges /\ err' = err
       ELSE pc' = pc /\ ranges' = ranges /\ err' = "ValueError"
    /\ UNCHANGED <<mode, save_blend, seed, duration_frames, rng, crashed, gen,
                   yielded, i, overrides, factory, scene, frame_start, frame_end,
                   disk, blends, img, log, in_seed, in_overrides, applied, prev>>

----------------------------------------------------------------------------
(* create_param_demo *)

(* for i, overrides in enumerate(iter_overrides(override_ranges)) *)
PdNext ==
    /\ Running /\ pc = "pd_next"
    /\ LET n == iter_overrides(ranges, gen)
       IN  /\ gen' = n.gen
           /\ IF n.result = "yield"
              THEN /\ i' = Len(yielded)
                   /\ overrides' = Some(n.value)
                   /\ yielded' = Append(yielded, n.value)
                   /\ pc' = "pd_clear"
                   /\ err' = err
              ELSE /\ UNCHANGED <<i, overrides, yielded>>
                   /\ pc' = IF n.result = "stop" THEN "done" ELSE pc
                   /\ err' = IF n.result = "raise" THEN "IndexError" ELSE err
    /\ UNCHANGED <<mode, save_blend, seed, duration_frames, rng, crashed, ranges,
                   factory, scene, frame_start, frame_end, disk, blends, img, log,
                   in_seed, in_overrides, applied, prev>>

PdClear ==
    /\ Running /\ pc = "pd_clear"
    /\ scene' = clear_scene
    /\ log' = Append(log, Entry("clear", i, i, <<>>))
    /\ pc' = "pd_compose"
    /\ UNCHANGED <<mode, save_blend, seed, duration_frames, rng, crashed, err,
                   ranges, gen, yielded, i, overrides, factory, frame_start,
                   frame_end, disk, blends, img, in_seed, in_overrides, applied, prev>>

PdCompose ==
    /\ Running /\ pc = "pd_compose"
    /\ LET c == SeededCompose(rng, seed, scene, overrides)
       IN  /\ rng' = c.rng
           /\ scene' = c.scene
           /\ factory' = Some(c.factory)
    /\ log' = Append(log, Entry("compose", i, i, <<>>))
    /\ pc' = "pd_save_blend"
    /\ UNCHANGED <<mode, save_blend, seed, duration_frames, crashed, err, ranges,
                   gen, yielded, i, overrides, frame_start, frame_end, disk, blends,
                   img, in_seed, in_overrides, applied, prev>>

PdSaveBlend ==
    /\ Running /\ pc = "pd_save_blend"
    /\ IF save_blend
       THEN /\ blends' = blends \cup {<<"scene", i>>}
            /\ log' = Append(log, Entry("save_blend", i, i, <<>>))
       ELSE UNCHANGED <<blends, log>>
    /\ pc' = "pd_frame"
    /\ UNCHANGED <<mode, save_blend, seed, duration_frames, rng, crashed, err,
                   ranges, gen, yielded, i, overrides, factory, scene, frame_start,
                   frame_end, disk, img, in_seed, in_overrides, applied, prev>>

PdFrameFromZero ==
    /\ Running /\ pc = "pd_frame"
    /\ frame_start' = 0
    /\ frame_end' = i
    /\ pc' = "pd_render"
    /\ UNCHANGED <<mode, save_blend, seed, duration_frames, rng, crashed, err,
                   ranges, gen, yielded, i, overrides, factory, scene, disk, blends,
                   img, log, in_seed, in_overrides, applied, prev>>

PdFrame ==
    /\ Running /\ pc = "pd_frame"
    /\ frame_start' = i
    /\ frame_end' = i
    /\ pc' = "pd_render"
    /\ UNCHANGED <<mode, save_blend, seed, duration_frames, rng, crashed, err,
                   ranges, gen, yielded, i, overrides, factory, scene, disk, blends,
                   img, log, in_seed, in_overrides, applied, prev>>

PdRender ==
    /\ Running /\ pc = "pd_render"
    /\ disk' = RenderFrames(disk, scene, frame_start, frame_end)
    /\ log' = Append(log, Entry("render", frame_start, frame_end, <<>>))
    /\ pc' = "pd_open"
    /\ UNCHANGED <<mode, save_blend, seed, duration_frames, rng, crashed, err,
                   ranges, gen, yielded, i, overrides, factory, scene, frame_start,
                   frame_end, blends, img, in_seed, in_overrides, applied, prev>>

PdOpen ==
    /\ Running /\ pc = "pd_open"
    /\ IF ImageName(i) \in DOMAIN disk
       THEN /\ img' = Some(disk[ImageName(i)])
            /\ log' = Append(log, Entry("open", i, i, ImageName(i)))
            /\ pc' = "pd_draw"
            /\ err' = err
       ELSE /\ err' = "FileNotFoundError"
            /\ UNCHANGED <<img, log, pc>>
    /\ UNCHANGED <<mode, save_blend, seed, duration_frames, rng, crashed, ranges,
                   gen, yielded, i, overrides, factory, scene, frame_start,
                   frame_end, disk, blends, in_seed, in_overrides, applied, prev>>

PdDraw ==
    /\ Running /\ pc = "pd_draw"
    /\ img' = Some(DrawText(img[1], overrides[1]))
    /\ log' = Append(log, Entry("overlay", i, i, <<>>))
    /\ pc' = "pd_save"
    /\ UNCHANGED <<mode, save_blend, seed, duration_frames, rng, crashed, err,
                   ranges, gen, yielded, i, overrides, factory, scene, frame_start,
                   frame_end, disk, blends, in_seed, in_overrides, applied, prev>>

PdSave ==
    /\ Running /\ pc = "pd_save"
    /\ disk' = (ImageName(i) :> img[1]) @@ disk
    /\ log' = Append(log, Entry("save", i, i, ImageName(i)))
    /\ pc' = "pd_next"
    /\ UNCHANGED <<mode, save_blend, seed, duration_frames, rng, crashed, err,
                   ranges, gen, yielded, i, overrides, factory, scene, frame_start,
                   frame_end, blends, img, in_seed, in_overrides, applied, prev>>

----------------------------------------------------------------------------
(* create_video *)

VClear ==
    /\ Running /\ pc = "v_clear"
    /\ scene' = clear_scene
    /\ pc' = "v_compose"
    /\ UNCHANGED <<mode, save_blend, seed, duration_frames, rng, crashed, err,
                   ranges, gen, yielded, i, overrides, factory, frame_start,
                   frame_end, disk, blends, img, log, in_seed, in_overrides,
                   applied, prev>>

VCompose ==
    /\ Running /\ pc = "v_compose"
    /\ LET c == SeededCompose(rng, seed, scene, None)
       IN  /\ rng' = c.rng
           /\ scene' = c.scene
           /\ factory' = Some(c.factory)
    /\ pc' = "v_save_blend"
    /\ UNCHANGED <<mode, save_blend, seed, duration_frames, crashed, err, ranges,
                   gen, yielded, i, overrides, frame_start, frame_end, disk, blends,
                   img, log, in_seed, in_overrides, applied, prev>>

VSaveBlend ==
    /\ Running /\ pc = "v_save_blend"
    /\ blends' = blends \cup {<<"scene", -1>>}
    /\ pc' = "v_frame"
    /\ UNCHANGED <<mode, save_blend, seed, duration_frames, rng, crashed, err,
                   ranges, gen, yielded, i, overrides, factory, scene, frame_start,
                   frame_end, disk, img, log, in_seed, in_overrides, applied, prev>>

VFrame ==
    /\ Running /\ pc = "v_frame"
    /\ frame_start' = 0
    /\ frame_end' = duration_frames
    /\ pc' = "v_render"
    /\ UNCHANGED <<mode, save_blend, seed, duration_frames, rng, crashed, err,
                   ranges, gen, yielded, i, overrides, factory, scene, disk, blends,
                   img, log, in_seed, in_overrides, applied, prev>>

VRender ==
    /\ Running /\ pc = "v_render"
    /\ disk' = RenderFrames(disk, scene, frame_start, frame_end)
    /\ pc' = "done"
    /\ UNCHANGED <<mode, save_blend, seed, duration_frames, rng, crashed, err,
                   ranges, gen, yielded, i, overrides, factory, scene, frame_start,
                   frame_end, blends, img, log, in_seed, in_overrides, applied, prev>>

----------------------------------------------------------------------------
(* Process termination in the middle of a run *)

MainPcs == {"main", "pd_next", "pd_clear", "pd_compose", "pd_save_blend", "pd_frame",
            "pd_render", "pd_open", "pd_draw", "pd_save",
            "v_clear", "v_compose", "v_save_blend", "v_frame", "v_render"}

Crash ==
    /\ Running /\ pc \in MainPcs
    /\ crashed' = TRUE
    /\ UNCHANGED <<mode, save_blend, seed, duration_frames, rng, pc, err, ranges,
                   gen, yielded, i, overrides, factory, scene, frame_start,
                   frame_end, disk, blends, img, log, in_seed, in_overrides,
                   applied, prev>>

Next ==
    \/ Main
    \/ PdNext
    \/ PdClear
    \/ PdCompose
    \/ PdSaveBlend
    \/ PdFrame
    \/ PdRender
    \/ PdOpen
    \/ PdDraw
    \/ PdSave
    \/ VClear
    \/ VCompose
    \/ VSaveBlend
    \/ VFrame
    \/ VRender
    \/ Crash

Spec == Init /\ [][Next]_vars

----------------------------------------------------------------------------
(* A second process started with the same seed and a fresh output folder *)

Rerun ==
    /\ pc = "done" \/ crashed \/ err # "none"
    /\ pc \in MainPcs \cup {"done"}
    /\ prev' = IF factory = None THEN prev ELSE Some(factory[1].sampled)
    /\ mode' \in Modes
    /\ save_blend' \in BOOLEAN
    /\ duration_frames' \in 0..MaxDuration
    /\ rng' \in 0..(RngMod - 1)
    /\ pc' = "main"
    /\ crashed' = FALSE
    /\ err' = "none"
    /\ ranges' = <<>>
    /\ gen' = NewGen
    /\ yielded' = <<>>
    /\ i' = 0
    /\ overrides' = None
    /\ factory' = None
    /\ scene' = EmptyScene
    /\ frame_start' = 1
    /\ frame_end' = 250
    /\ disk' = <<>>
    /\ blends' = {}
    /\ img' = None
    /\ log' = <<>>
    /\ UNCHANGED <<seed, in_seed, in_overrides, applied>>

NextSeed == Next \/ Rerun

SpecSeed == Init /\ [][NextSeed]_vars

----------------------------------------------------------------------------
(* iter_overrides on its own, over bounded RangeSpecs *)

ExampleRanges ==
    << <<"major_radius", <<100, 150, 200>> >>, <<"minor_radius", <<10, 55, 100>> >> >>

MaxNames == 2

NameSet == {ParamNames[n] : n \in DOMAIN ParamNames}

CandVals == {1, 2}

CandLists == UNION {[1..n -> CandVals] : n \in 0..MaxLen}

NameSeqs ==
    {ns \in UNION {[1..n -> NameSet] : n \in 0..MaxNames} :
        \A a, b \in DOMAIN ns : ns[a] = ns[b] => a = b}

RangeSpecOf(ns, cs) == [n \in DOMAIN ns |-> <<ns[n], cs[n]>>]

Idle ==
    /\ mode = "none"
    /\ save_blend = FALSE
    /\ seed = 0
    /\ duration_frames = 0

InitIter ==
    /\ Idle
    /\ rng = 0
    /\ pc = "iter"
    /\ \/ \E ns \in NameSeqs : \E cs \in [DOMAIN ns -> CandLists] :
             ranges = RangeSpecOf(ns, cs)
       \/ ranges \in {ExampleRanges, override_ranges}
    /\ in_seed = 0
    /\ in_overrides = None
    /\ Blank

(* one step of a consumer: for i, overrides in enumerate(iter_overrides(ranges)) *)
IterNext ==
    /\ Running /\ pc = "iter"
    /\ LET n == iter_overrides(ranges, gen)
       IN  /\ gen' = n.gen
           /\ IF n.result = "yield"
              THEN /\ i' = Len(yielded)
                   /\ overrides' = Some(n.value)
                   /\ yielded' = Append(yielded, n.value)
                   /\ UNCHANGED <<pc, err>>
              ELSE /\ UNCHANGED <<i, overrides, yielded>>
                   /\ pc' = IF n.result = "stop" THEN "iter_done" ELSE pc
                   /\ err' = IF n.result = "raise" THEN "IndexError" ELSE err
    /\ UNCHANGED <<mode, save_blend, seed, duration_frames, rng, crashed, ranges,
                   factory, scene, frame_start, frame_end, disk, blends, img, log,
                   in_seed, in_overrides, applied, prev>>

SpecIter == InitIter /\ [][IterNext]_vars

----------------------------------------------------------------------------
(* MyAsset(...) and compose_scene(...) on their own, over bounded overrides *)

OverrideKeys == {"major_radius", "noise_scale", "bogus"}

MaxOverrides == 2

OverrideMaps ==
    {m \in UNION {[1..n -> OverrideKeys \X (1..MaxVal)] : n \in 0..MaxOverrides} :
        \A a, b \in DOMAIN m : m[a][1] = m[b][1] => a = b}

InitApply ==
    /\ Idle
    /\ rng \in 0..(RngMod - 1)
    /\ pc \in {"ctor", "compose"}
    /\ ranges = <<>>
    /\ in_seed \in 0..MaxSeed
    /\ in_overrides \in {None} \cup {Some(m) : m \in OverrideMaps}
    /\ Blank

(* MyAsset(factory_seed, overrides) *)
UnitCtor ==
    /\ Running /\ pc = "ctor"
    /\ LET made == MyAssetInit(rng, in_seed, in_overrides)
       IN  /\ factory' = Some(made.factory)
           /\ rng' = made.rng
    /\ applied' = IF in_overrides # None THEN 1 ELSE 0
    /\ pc' = "apply"
    /\ UNCHANGED <<mode, save_blend, seed, duration_frames, crashed, err, ranges,
                   gen, yielded, i, overrides, scene, frame_start, frame_end, disk,
                   blends, img, log, in_seed, in_overrides, prev>>

(* compose_scene(output_folder, scene_seed, overrides) *)
UnitCompose ==
    /\ Running /\ pc = "compose"
    /\ LET c == compose_scene(rng, scene, in_overrides)
       IN  /\ factory' = Some(c.factory)
           /\ scene' = c.scene
           /\ rng' = c.rng
    /\ applied' = IF in_overrides # None THEN 1 ELSE 0
    /\ pc' = "apply"
    /\ UNCHANGED <<mode, save_blend, seed, duration_frames, crashed, err, ranges,
                   gen, yielded, i, overrides, frame_start, frame_end, disk, blends,
                   img, log, in_seed, in_overrides, prev>>

(* factory.params.update(overrides), once more *)
UnitApply ==
    /\ Running /\ pc = "apply"
    /\ in_overrides # None
    /\ applied >= 1 /\ applied < MaxApply
    /\ factory' = Some([factory[1] EXCEPT !.params = DictUpdate(@, in_overrides[1])])
    /\ applied' = applied + 1
    /\ UNCHANGED <<mode, save_blend, seed, duration_frames, rng, pc, crashed, err,
                   ranges, gen, yielded, i, overrides, scene, frame_start, frame_end,
                   disk, blends, img, log, in_seed, in_overrides, prev>>

NextApply == UnitCtor \/ UnitCompose \/ UnitApply

SpecApply == InitApply /\ [][NextApply]_vars

----------------------------------------------------------------------------
(* Properties *)

RECURSIVE SumLens(_, _)
SumLens(rs, k) == IF k = 0 THEN 0 ELSE SumLens(rs, k - 1) + Len(rs[k][2])

TotalLen(rs) == SumLens(rs, Len(rs))

NoEmptyList(rs) == \A n \in DOMAIN rs : Len(rs[n][2]) > 0

Middle(v) == v[(Len(v) \div 2) + 1]

Elems(v) == {v[n] : n \in DOMAIN v}

(* the OverrideSet expected at 0-based position p of the sequence *)
ExpectedAt(rs, p) ==
    LET k == CHOOSE m \in DOMAIN rs : SumLens(rs, m - 1) <= p /\ p < SumLens(rs, m)
        off == p - SumLens(rs, k - 1)
    IN  [n \in DOMAIN rs |->
            <<rs[n][1], IF n = k THEN rs[k][2][off + 1] ELSE Middle(rs[n][2])>>]

Name4(n) == <<(n \div 1000) % 10, (n \div 100) % 10, (n \div 10) % 10, n % 10>>

IsPrefix(a, b) == Len(a) <= Len(b) /\ \A n \in DOMAIN a : a[n] = b[n]

(* C1: every yielded OverrideSet carries the names of the RangeSpec, and for one
   name k all the other names hold the midpoint of their own range while k
   holds some candidate of its own range. *)
C1_MidpointExceptOne ==
    NoEmptyList(ranges) =>
        \A p \in DOMAIN yielded :
            /\ Keys(yielded[p]) = {ranges[n][1] : n \in DOMAIN ranges}
            /\ Len(yielded[p]) = Len(ranges)
            /\ \E k \in DOMAIN ranges :
                  /\ \A m \in DOMAIN ranges \ {k} :
                        Get(yielded[p], ranges[m][1]) = Middle(ranges[m][2])
                  /\ Get(yielded[p], ranges[k][1]) \in Elems(ranges[k][2])

C1_Witness ==
    /\ pc = "iter_done"
    /\ Len(ranges) = 2
    /\ Len(ranges[1][2]) = 2 /\ ranges[1][2][1] # ranges[1][2][2]
    /\ Len(ranges[2][2]) = 2 /\ ranges[2][2][1] # ranges[2][2][2]
    /\ Len(yielded) = 4

(* C2: the element at position p is the midpoint mapping with the name whose
   block contains p replaced by the candidate at offset p minus the lengths of
   the preceding lists; for the two-name example element #0 is
   {major_radius: 1, minor_radius: 0.55} and element #3 is
   {major_radius: 1.5, minor_radius: 0.1}. *)
C2_DeterministicOrder ==
    /\ \A p \in DOMAIN yielded : yielded[p] = ExpectedAt(ranges, p - 1)
    /\ (ranges = ExampleRanges /\ Len(yielded) >= 1) =>
           yielded[1] = << <<"major_radius", 100>>, <<"minor_radius", 55>> >>
    /\ (ranges = ExampleRanges /\ Len(yielded) >= 4) =>
           yielded[4] = << <<"major_radius", 150>>, <<"minor_radius", 10>> >>

C2_Witness ==
    /\ ranges = ExampleRanges
    /\ pc = "iter_done"
    /\ Len(yielded) = 6

(* C3 as stated: for any RangeSpec the enumeration ends having yielded exactly
   n_1 + ... + n_k OverrideSets. *)
C3_Original == gen.done => Len(yielded) = TotalLen(ranges)

(* C3 amended: when every n_i is at least 1 the enumeration ends normally having
   yielded exactly n_1 + ... + n_k OverrideSets (12 for the built-in ranges);
   when some n_i is 0 it ends with an IndexError having yielded none. *)
C3_Count ==
    /\ Len(yielded) <= TotalLen(ranges)
    /\ gen.done =>
          IF NoEmptyList(ranges)
          THEN /\ err = "none" /\ pc = "iter_done"
               /\ Len(yielded) = TotalLen(ranges)
               /\ (ranges = override_ranges => Len(yielded) = 12)
          ELSE err = "IndexError" /\ Len(yielded) = 0

C3_Witness ==
    /\ ranges = override_ranges
    /\ pc = "iter_done"
    /\ Len(yielded) = 12

(* C4 as stated: with an empty candidate list the enumeration does not fail,
   and ends having yielded the OverrideSets of the other parameters. *)
C4_Original ==
    (~NoEmptyList(ranges) /\ gen.started) =>
        /\ err = "none"
        /\ gen.done => Len(yielded) = TotalLen(ranges)

(* C4 amended: with an empty candidate list the first step of the enumeration
   fails with an IndexError while the midpoints are computed, and no
   OverrideSet is yielded for any parameter. *)
C4_EmptyListRaises ==
    (~NoEmptyList(ranges) /\ gen.started) =>
        /\ err = "IndexError"
        /\ gen.done
        /\ yielded = <<>>

C4_Witness ==
    /\ ~NoEmptyList(ranges)
    /\ TotalLen(ranges) > 0
    /\ err = "IndexError"


UnknownKeys == IF in_overrides = None THEN {} ELSE Keys(in_overrides[1]) \ NameSet

(* C5 as stated: applying an override mapping with a key that the base
   ParameterSet lacks signals an error, in the constructor and in
   compose_scene, and no asset is spawned with the unknown key. *)
C5_Original ==
    (factory # None /\ UnknownKeys # {}) =>
        /\ err # "none"
        /\ \A n \in DOMAIN scene.assets :
              Keys(scene.assets[n].mesh.material) \cap UnknownKeys = {}

(* C5 amended: applying an override mapping never signals an error; a key
   that the base ParameterSet lacks is added to it, in the constructor and in
   compose_scene, and compose_scene spawns the asset with that key among its
   parameters. *)
C5_UnknownKeyAdded ==
    (factory # None /\ in_overrides # None) =>
        /\ err = "none"
        /\ Keys(factory[1].params) = Keys(factory[1].sampled) \cup Keys(in_overrides[1])
        /\ \A k \in UnknownKeys : Get(factory[1].params, k) = Get(in_overrides[1], k)
        /\ \A n \in DOMAIN scene.assets :
              UnknownKeys \subseteq Keys(scene.assets[n].mesh.material)

C5_Witness ==
    /\ factory # None
    /\ "bogus" \in UnknownKeys
    /\ Len(scene.assets) = 1
    /\ "bogus" \in Keys(scene.assets[1].mesh.material)

(* the ParameterSet that one application of ov to the sampled values gives *)
AppliedOnce(f, ov) ==
    /\ Keys(f.params) = Keys(f.sampled) \cup Keys(ov)
    /\ Len(f.params) = Cardinality(Keys(f.params))
    /\ \A k \in Keys(f.params) :
          Get(f.params, k) = IF k \in Keys(ov) THEN Get(ov, k) ELSE Get(f.sampled, k)

(* C9: after the first application of an override mapping the overridden keys
   hold the override value and all other keys their sampled value, and every
   further application of the same mapping leaves the ParameterSet unchanged. *)
C9_Idempotent ==
    [][(applied' # applied /\ applied' >= 1) =>
          /\ AppliedOnce(factory'[1], in_overrides[1])
          /\ (applied >= 1 => factory' = factory)]_vars

C9_Witness ==
    /\ applied >= 2
    /\ "major_radius" \in Keys(in_overrides[1])
    /\ "bogus" \in Keys(in_overrides[1])
    /\ Get(factory[1].params, "major_radius") # Get(factory[1].sampled, "major_radius")

----------------------------------------------------------------------------
(* Properties of the parameter-demo sweep *)

NumSteps == TotalLen(override_ranges)

StepOps(idx, blend) ==
    << Entry("clear", idx, idx, <<>>), Entry("compose", idx, idx, <<>>) >>
    \o (IF blend THEN << Entry("save_blend", idx, idx, <<>>) >> ELSE <<>>)
    \o << Entry("render", idx, idx, <<>>),
          Entry("open", idx, idx, Name4(idx)),
          Entry("overlay", idx, idx, <<>>),
          Entry("save", idx, idx, Name4(idx)) >>

RECURSIVE ExpectedLog(_, _)
ExpectedLog(n, blend) ==
    IF n = 0 THEN <<>> ELSE ExpectedLog(n - 1, blend) \o StepOps(n - 1, blend)

StepPcs == {"pd_clear", "pd_compose", "pd_save_blend", "pd_frame", "pd_render",
            "pd_open", "pd_draw", "pd_save"}

Overlaid(name) == name \in DOMAIN disk /\ disk[name].text # <<>>

(* C6: the operations of the sweep happen step by step in the order clear,
   compose with the step's OverrideSet, save scene_i only when save_blend is
   set, render the single frame i, open, overlay and re-save image i; a step
   starts only when the overlaid image of the step before is on disk. *)
C6_StepOrder ==
    mode = "param_demo" =>
        /\ IsPrefix(log, ExpectedLog(NumSteps, save_blend))
        /\ (pc \in StepPcs \ {"pd_clear", "pd_compose"}) =>
               factory[1].params = yielded[i + 1]
        /\ (pc \in {"pd_render", "pd_open"}) => (frame_start = i /\ frame_end = i)
        /\ (pc \in StepPcs) => \A j \in 0..(i - 1) : Overlaid(Name4(j))
        /\ (pc \in {"pd_open", "pd_draw", "pd_save"}) =>
               DOMAIN disk = {Name4(j) : j \in 0..i}
        /\ blends = {<<"scene", j>> :
                        j \in 0..(Cardinality({n \in DOMAIN log : log[n].op = "save_blend"}) - 1)}
        /\ (pc = "done") => Len(log) = Len(ExpectedLog(NumSteps, save_blend))

C6_Witness ==
    /\ mode = "param_demo"
    /\ save_blend
    /\ pc = "done"
    /\ Len(log) = 7 * 12

(* C7 as stated: after a crash during step i the disk holds an image for every
   j < i and no image file for i. *)
C7_Original ==
    (crashed /\ mode = "param_demo" /\ pc \in StepPcs) =>
        /\ \A j \in 0..(i - 1) : Name4(j) \in DOMAIN disk
        /\ Name4(i) \notin DOMAIN disk

(* C7 amended: after a crash during step i the disk holds the overlaid image
   of every j < i and nothing for any index above i; for i itself it holds
   nothing when the crash came before the render had finished, and the
   rendered image without overlay when it came after the render and before
   the re-save. *)
C7_CrashLeaves ==
    (crashed /\ mode = "param_demo" /\ pc \in StepPcs) =>
        /\ \A j \in 0..(i - 1) : Overlaid(Name4(j))
        /\ DOMAIN disk \subseteq {Name4(j) : j \in 0..i}
        /\ (Name4(i) \in DOMAIN disk) <=> (pc \in {"pd_open", "pd_draw", "pd_save"})
        /\ (Name4(i) \in DOMAIN disk) => disk[Name4(i)].text = <<>>

C7_Witness ==
    /\ crashed
    /\ mode = "param_demo"
    /\ pc = "pd_draw"
    /\ i = 2
    /\ Name4(2) \in DOMAIN disk /\ ~Overlaid(Name4(2))
    /\ Overlaid(Name4(1))

(* C8: a run samples the same ParameterSet as an earlier run that was started
   with the same seed, whatever state the random source was in when either
   run began. *)
C8_SeedDeterministic ==
    (factory # None /\ prev # None) => factory[1].sampled = prev[1]

C8_Witness ==
    /\ factory # None
    /\ prev # None
    /\ factory[1].sampled = prev[1]
    /\ mode = "video"
    /\ pc = "done"

(* C10: in the sweep every OverrideSet carries the four parameter names, the
   spawned asset's parameters equal the step's OverrideSet, which depends on
   the step index only, and the text overlaid on image i lists all four
   parameters of the asset rendered in it. *)
C10_AssetEqualsOverrides ==
    mode = "param_demo" =>
        /\ \A p \in DOMAIN yielded :
              [n \in DOMAIN yielded[p] |-> yielded[p][n][1]] = ParamNames
        /\ (pc \in StepPcs \ {"pd_clear", "pd_compose"}) =>
              /\ factory[1].params = overrides[1]
              /\ Len(scene.assets) = 1
              /\ scene.assets[1].mesh.material = ExpectedAt(override_ranges, i)
              /\ scene.assets[1].mesh.major_radius = Get(overrides[1], "major_radius")
              /\ scene.assets[1].mesh.minor_radius = Get(overrides[1], "minor_radius")
        /\ \A name \in DOMAIN disk :
              /\ Len(disk[name].assets) = 1
              /\ disk[name].assets[1].mesh.material =
                     ExpectedAt(override_ranges, disk[name].frame)
              /\ disk[name].text # <<>> =>
                     /\ Len(disk[name].text) = 4
                     /\ \A n \in 1..4 :
                           /\ disk[name].text[n][1] = disk[name].assets[1].mesh.material[n][1]
                           /\ disk[name].text[n][2] =
                                  Fmt2(disk[name].assets[1].mesh.material[n][2])

C10_Witness ==
    /\ mode = "param_demo"
    /\ pc = "done"
    /\ Cardinality(DOMAIN disk) = 12
    /\ \A name \in DOMAIN disk : Overlaid(name)
    /\ Get(factory[1].sampled, "noise_scale") # Get(factory[1].params, "noise_scale")

====
